---- MODULE Spec2Model ----
(***************************************************************************)
(* LoopGuard follow-up lifecycle: the FollowUpRecommendation entity, the   *)
(* follow-up repository, and the application services and routes that     *)
(* create follow-ups, change their status, list the worklist and generate  *)
(* metrics.                                                                *)
(*                                                                         *)
(* The specifications are defined over the same variables:                 *)
(*   SpecEntity  - one FollowUpRecommendation object, constructed with     *)
(*                 arbitrary field values, on which the entity's methods   *)
(*                 are called (domain/entities/followup.py);               *)
(*   Spec        - concurrent requests against the persisted tables, each  *)
(*                 request running one service or route handler, split at  *)
(*                 its awaits on the repository and the audit logger.      *)
(*   SpecUpdate  - the same, with every request running                    *)
(*                 UpdateFollowUpStatusService.execute;                    *)
(*   SpecLifecycle - the same at one reading of the clock;                 *)
(*   SpecScenario - one object and the record of the calls made on it;     *)
(*   SpecUser    - User objects (domain/entities/user.py);                 *)
(*   SpecDomain  - a RecommendationInterval and a RadiologyReport object;  *)
(*   SpecLink    - calls of LinkSupabaseUserService.execute;               *)
(*   SpecSequential - create and update requests, one after another;       *)
(*   SpecQuery   - worklist and metrics requests over arbitrary rows.      *)
(*                                                                         *)
(* Dates are integers (a count of clock units, TicksPerDay to the day),    *)
(* UUIDs are small positive                                                *)
(* integers, an absent Optional value is NoDate / NoId / "none".  The      *)
(* free-text fields body_region, reason, note and ip_address are copied by *)
(* the code and never read by it; they are left out of the records.        *)
(***************************************************************************)
EXTENDS Integers, Sequences, FiniteSets, Bags, TLC

\* ------------------------------------------------------------------ bounds
MaxTime == 1
MaxInterval == 2
MaxRecs == 2
MaxCalls == 2
\* clock units to the day: a timedelta of n days is n * TicksPerDay units
TicksPerDay == 2

\* --------------------------------------------------------------- constants
NoDate == -1
NoId == 0
DaysPerMonth == 30

Statuses == {"pending", "scheduled", "completed", "cancelled", "overdue"}
Priorities == {"routine", "urgent", "stat"}
Roles == {"radiologist", "coordinator", "admin"}

VARIABLES
    now,        \* datetime.utcnow(), non-decreasing
    ent,        \* SpecEntity: the FollowUpRecommendation object under test
    entBefore,  \* SpecEntity: its fields before the last method call
    entCall,    \* SpecEntity: the last method call, its argument and outcome
    entLog,     \* SpecScenario: the method calls made on the object, in order
    userEnt,    \* SpecUser: the User object under test, or NoUser
    userCall,   \* SpecUser: the last constructor or method call and its outcome
    interval,   \* SpecDomain: the RecommendationInterval under test, or NoInterval
    intervalCall, \* SpecDomain: the last call on RecommendationInterval
    reportEnt,  \* SpecDomain: the RadiologyReport object under test
    reportCall, \* SpecDomain: the last call of report.finalize() and its outcome
    users,      \* SpecLink: table users, supabase_user_id -> row
    linkCall,   \* SpecLink: the last LinkSupabaseUserService.execute call
    followups,  \* table followups: id -> row, or NoRow
    actions,    \* table followup_actions, in insertion order (the order of
                \* created_at under a non-decreasing clock)
    auditLog,   \* table audit_events: a bag of rows
    calls,      \* per request: the handler it runs and where it stands
    lastDone,   \* the request that ended last: its handler, outcome and counts
    nextId,     \* uuid4(): the next unused follow-up id
    nCalls      \* number of requests started

vars == <<now, ent, entBefore, entCall, entLog, userEnt, userCall, interval,
          intervalCall, reportEnt, reportCall, users, linkCall, followups, actions,
          auditLog, calls, lastDone, nextId, nCalls>>

userVars == <<userEnt, userCall>>
valueVars == <<interval, intervalCall, reportEnt, reportCall>>
linkVars == <<users, linkCall>>
entityVars == <<ent, entBefore, entCall, entLog, userVars, valueVars, linkVars>>
serviceVars == <<followups, actions, auditLog, calls, lastDone, nextId, nCalls>>

\* ============================================================== the entity

\* the table of can_transition_to's docstring, in which COMPLETED and
\* CANCELLED are terminal and PENDING cannot complete
valid_transitions_documented ==
    [s \in Statuses |->
        CASE s = "pending"   -> {"scheduled", "cancelled"}
          [] s = "scheduled" -> {"completed", "cancelled"}
          [] s = "completed" -> {}
          [] s = "cancelled" -> {}
          [] s = "overdue"   -> {"scheduled", "completed", "cancelled"}]

\* a table in which a pending recommendation may be marked overdue
valid_transitions_with_overdue ==
    [s \in Statuses |->
        CASE s = "pending"   -> {"scheduled", "completed", "cancelled", "overdue"}
          [] s = "scheduled" -> {"pending", "completed", "cancelled"}
          [] s = "completed" -> {"pending"}
          [] s = "cancelled" -> {"pending"}
          [] s = "overdue"   -> {"scheduled", "completed", "cancelled"}]

\* FollowUpRecommendation.can_transition_to: the valid_transitions dict
valid_transitions ==
    [s \in Statuses |->
        CASE s = "pending"   -> {"scheduled", "completed", "cancelled"}
          [] s = "scheduled" -> {"pending", "completed", "cancelled"}
          [] s = "completed" -> {"pending"}
          [] s = "cancelled" -> {"pending"}
          [] s = "overdue"   -> {"scheduled", "completed", "cancelled"}]

\* valid_transitions.get(self.status, set())
transitions_get(status) ==
    IF status \in DOMAIN valid_transitions THEN valid_transitions[status] ELSE {}

can_transition_to(self, new_status) ==
    new_status \in transitions_get(self.status)

\* an update_status that refreshes updated_at before it validates
update_status_touch_first(self, new_status, utcnow) ==
    IF ~ can_transition_to(self, new_status)
    THEN [ent |-> [self EXCEPT !.updated_at = utcnow], raised |-> "ValueError"]
    ELSE [ent |-> [self EXCEPT !.status = new_status, !.updated_at = utcnow],
          raised |-> "none"]

\* an update_status that sets the status and leaves updated_at alone
update_status_no_touch(self, new_status, utcnow) ==
    IF ~ can_transition_to(self, new_status)
    THEN [ent |-> self, raised |-> "ValueError"]
    ELSE [ent |-> [self EXCEPT !.status = new_status], raised |-> "none"]

\* an update_status that does not validate the transition
update_status_unvalidated(self, new_status, utcnow) ==
    [ent |-> [self EXCEPT !.status = new_status, !.updated_at = utcnow],
     raised |-> "none"]

\* FollowUpRecommendation.update_status: the object after the call and the
\* exception it raised ("none" when it returned)
update_status(self, new_status, utcnow) ==
    IF ~ can_transition_to(self, new_status)
    THEN [ent |-> self, raised |-> "ValueError"]
    ELSE [ent |-> [self EXCEPT !.status = new_status, !.updated_at = utcnow],
          raised |-> "none"]

\* a calculate_due_date that counts 31 days to the month
calculate_due_date_31(self, reference_date, utcnow) ==
    LET base_date == IF reference_date # NoDate THEN reference_date ELSE utcnow
    IN  [self EXCEPT !.due_date = base_date + 31 * self.interval_months * TicksPerDay]

\* FollowUpRecommendation.calculate_due_date: the object after the call; the
\* returned value is its due_date
calculate_due_date(self, reference_date, utcnow) ==
    LET base_date == IF reference_date # NoDate THEN reference_date ELSE utcnow
    IN  [self EXCEPT !.due_date =
                        base_date + self.interval_months * DaysPerMonth * TicksPerDay]

\* an is_overdue that looks at the due date alone
is_overdue_any_status(self, utcnow) ==
    IF self.due_date = NoDate THEN FALSE ELSE utcnow > self.due_date

\* an is_overdue that counts the due date itself as overdue
is_overdue_inclusive(self, utcnow) ==
    IF self.due_date = NoDate THEN FALSE
    ELSE IF self.status \in {"completed", "cancelled"} THEN FALSE
    ELSE utcnow >= self.due_date

\* FollowUpRecommendation.is_overdue
is_overdue(self, utcnow) ==
    IF self.due_date = NoDate THEN FALSE
    ELSE IF self.status \in {"completed", "cancelled"} THEN FALSE
    ELSE utcnow > self.due_date

\* ------------------------------------------------------------------ clock

\* datetime.utcnow() read at a later moment
Tick ==
    /\ now < MaxTime
    /\ now' = now + 1
    /\ UNCHANGED <<entityVars, serviceVars>>

\* ===================================== SpecEntity: the entity's own methods

NoCall == [op |-> "none", arg |-> "none", ref |-> NoDate, ret |-> FALSE, val |-> NoDate, raised |-> "none", at |-> NoDate, status |-> "none"]

\* datetime(2024, month, day) as a count of clock units from datetime(2024, 1, 1)
MonthLengths2024 == <<31, 29, 31, 30, 31, 30, 31, 31, 30, 31, 30, 31>>

RECURSIVE DaysBeforeMonth2024(_)
DaysBeforeMonth2024(month) ==
    IF month = 1 THEN 0
    ELSE DaysBeforeMonth2024(month - 1) + MonthLengths2024[month - 1]

Date2024(month, day) == (DaysBeforeMonth2024(month) + day - 1) * TicksPerDay

\* the intervals a recommendation is constructed with: the small ones and the
\* three and six months of the tests and the documented scenario
IntervalMonthsInputs == 1..MaxInterval \cup {3, 6}

\* the reference dates calculate_due_date is called with: None, the clock's
\* values, and the dates of the tests and the documented scenario
ReferenceDateInputs == {NoDate} \cup 0..MaxTime \cup {Date2024(1, 1), Date2024(6, 1)}

\* FollowUpRecommendation(...): the dataclass constructor takes any value for
\* any field; timestamps already stored were read from the clock earlier
EntityInputs(t) ==
    [id : {1}, report_id : {1}, patient_id : {1},
     recommended_modality : {"CT"},
     interval_months : IntervalMonthsInputs,
     due_date : {NoDate} \cup 0..MaxTime,
     status : Statuses,
     priority : Priorities,
     assigned_to : {NoId},
     created_by : {1},
     created_at : {0},
     updated_at : {NoDate} \cup 0..t]

\* a call of followup.can_transition_to(new_status)
EntityCanTransitionTo(new_status) ==
    /\ entBefore' = ent
    /\ ent' = ent
    /\ entCall' = [NoCall EXCEPT !.op = "can_transition_to", !.arg = new_status,
                                  !.ret = can_transition_to(ent, new_status),
                                  !.at = now, !.status = ent.status]
    /\ UNCHANGED <<now, userVars, valueVars, linkVars, serviceVars>>

\* a call of followup.update_status(new_status)
EntityUpdateStatus(new_status) ==
    LET r == update_status(ent, new_status, now) IN
    /\ entBefore' = ent
    /\ ent' = r.ent
    /\ entCall' = [NoCall EXCEPT !.op = "update_status", !.arg = new_status,
                                  !.raised = r.raised, !.at = now,
                                  !.status = r.ent.status]
    /\ UNCHANGED <<now, userVars, valueVars, linkVars, serviceVars>>

\* a call of followup.calculate_due_date(reference_date); NoDate stands for the
\* default None
EntityCalculateDueDate(reference_date) ==
    LET e == calculate_due_date(ent, reference_date, now) IN
    /\ entBefore' = ent
    /\ ent' = e
    /\ entCall' = [NoCall EXCEPT !.op = "calculate_due_date", !.ref = reference_date,
                                  !.val = e.due_date, !.at = now,
                                  !.status = e.status]
    /\ UNCHANGED <<now, userVars, valueVars, linkVars, serviceVars>>

\* a call of followup.is_overdue()
EntityIsOverdue ==
    /\ entBefore' = ent
    /\ ent' = ent
    /\ entCall' = [NoCall EXCEPT !.op = "is_overdue", !.ret = is_overdue(ent, now),
                                  !.at = now, !.status = ent.status]
    /\ UNCHANGED <<now, userVars, valueVars, linkVars, serviceVars>>

\* ============================================================ the User entity

\* no User object: none was constructed, or the constructor raised
NoUser ==
    [id |-> NoId, supabase_user_id |-> "", role |-> "none", site_id |-> NoId,
     is_active |-> FALSE]

NoUserCall == [op |-> "none", arg |-> "none", ret |-> FALSE, raised |-> "none"]

\* the arguments User(...) is constructed with
UserInputs ==
    [id : {1, 2}, supabase_user_id : {"", "test-id"}, role : Roles,
     site_id : {NoId, 1}, is_active : BOOLEAN]

\* a hierarchy that ranks every role alike
role_hierarchy_flat == [r \in Roles |-> 1]

\* User.has_permission: the role_hierarchy dict
role_hierarchy ==
    [r \in Roles |->
        CASE r = "radiologist" -> 1 [] r = "coordinator" -> 2 [] r = "admin" -> 3]

\* role_hierarchy.get(role, 0)
hierarchy_get(role) == IF role \in DOMAIN role_hierarchy THEN role_hierarchy[role] ELSE 0

has_permission(self, required_role) ==
    hierarchy_get(self.role) >= hierarchy_get(required_role)

\* a __post_init__ that validates nothing
post_init_lenient(self) == "none"

\* User.__post_init__: the exception it raises ("none" when it returns)
post_init(self) ==
    IF self.supabase_user_id = "" THEN "ValueError" ELSE "none"

\* User(...): the dataclass sets the fields and runs __post_init__; when that
\* raises, the expression yields no object
UserNew(args) ==
    LET raised == post_init(args) IN
    /\ userEnt' = IF raised = "none" THEN args ELSE NoUser
    /\ userCall' = [NoUserCall EXCEPT !.op = "User", !.arg = args.supabase_user_id,
                                      !.raised = raised]
    /\ UNCHANGED <<now, ent, entBefore, entCall, entLog, valueVars, linkVars, serviceVars>>

\* a call of user.has_permission(required_role) on a constructed User
UserHasPermission(required_role) ==
    /\ userEnt # NoUser
    /\ userCall' = [NoUserCall EXCEPT !.op = "has_permission", !.arg = required_role,
                                      !.ret = has_permission(userEnt, required_role)]
    /\ UNCHANGED <<now, userEnt, ent, entBefore, entCall, entLog, valueVars, linkVars,
                   serviceVars>>

\* ========================= the RecommendationInterval value object

IntervalUnits == {"days", "weeks", "months", "years"}

\* max_value: Optional[int] = None
NoValue == -1

\* no RecommendationInterval: none was constructed, or the constructor raised
NoInterval == [value |-> 0, unit |-> "none", max_value |-> NoValue]

NoIntervalCall ==
    [op |-> "none", value |-> 0, unit |-> "none", ret |-> 0, raised |-> "none",
     message |-> ""]

\* the arguments RecommendationInterval(...) is constructed with
RecommendationIntervalInputs ==
    [value : (-1..MaxInterval) \cup {3, 12}, unit : IntervalUnits,
     max_value : {NoValue, 2, 12}]

\* RecommendationInterval.__post_init__: the exception it raises and its
\* message ("none" when it returns)
interval_post_init(self) ==
    IF self.value <= 0
    THEN [raised |-> "ValueError", message |-> "Interval value must be positive"]
    ELSE IF self.max_value # NoValue /\ self.max_value <= self.value
    THEN [raised |-> "ValueError", message |-> "max_value must be greater than value"]
    ELSE [raised |-> "none", message |-> ""]

\* a multipliers dict that counts 31 days to the month
multipliers_calendar ==
    [u \in IntervalUnits |->
        CASE u = "days" -> 1 [] u = "weeks" -> 7 [] u = "months" -> 31
          [] u = "years" -> 365]

\* RecommendationInterval.to_days: the multipliers dict
multipliers ==
    [u \in IntervalUnits |->
        CASE u = "days" -> 1 [] u = "weeks" -> 7 [] u = "months" -> 30
          [] u = "years" -> 365]

\* RecommendationInterval.to_days: a number of days
to_days(self) == self.value * multipliers[self.unit]

\* RecommendationInterval(value, unit, max_value): the frozen dataclass sets
\* the fields and runs __post_init__; when that raises, the expression yields
\* no object
IntervalNew(args) ==
    LET e == interval_post_init(args) IN
    /\ interval' = IF e.raised = "none" THEN args ELSE NoInterval
    /\ intervalCall' = [NoIntervalCall EXCEPT
                           !.op = "RecommendationInterval", !.value = args.value,
                           !.unit = args.unit, !.raised = e.raised,
                           !.message = e.message]
    /\ UNCHANGED <<now, ent, entBefore, entCall, entLog, userVars, reportEnt, reportCall,
                   linkVars, serviceVars>>

\* a call of interval.to_days() on a constructed RecommendationInterval
IntervalToDays ==
    /\ interval # NoInterval
    /\ intervalCall' = [NoIntervalCall EXCEPT
                           !.op = "to_days", !.value = interval.value,
                           !.unit = interval.unit, !.ret = to_days(interval)]
    /\ UNCHANGED <<now, ent, entBefore, entCall, entLog, userVars, interval, reportEnt,
                   reportCall, linkVars, serviceVars>>

\* ================================================ the RadiologyReport entity

\* RadiologyReport() with the dataclass defaults
NoReport == [id |-> NoId, is_finalized |-> FALSE, finalized_at |-> NoDate]

NoReportCall == [op |-> "none", raised |-> "none", at |-> NoDate, before |-> NoReport]

\* the field values RadiologyReport(...) is constructed with
ReportInputs == [id : {1}, is_finalized : BOOLEAN, finalized_at : {NoDate} \cup 0..MaxTime]

\* a finalize that stamps the report whenever it is called
finalize_again(self, utcnow) ==
    [report |-> [self EXCEPT !.is_finalized = TRUE, !.finalized_at = utcnow],
     raised |-> "none"]

\* RadiologyReport.finalize: the object after the call and the exception raised
finalize(self, utcnow) ==
    IF self.is_finalized
    THEN [report |-> self, raised |-> "ValueError"]
    ELSE [report |-> [self EXCEPT !.is_finalized = TRUE, !.finalized_at = utcnow],
          raised |-> "none"]

\* a call of report.finalize()
ReportFinalize ==
    LET r == finalize(reportEnt, now) IN
    /\ reportEnt' = r.report
    /\ reportCall' = [op |-> "finalize", raised |-> r.raised, at |-> now,
                      before |-> reportEnt]
    /\ UNCHANGED <<now, ent, entBefore, entCall, entLog, userVars, interval,
                   intervalCall, linkVars, serviceVars>>

\* ============================================ the tables and the repository

\* the requests in flight at one time: two sessions
Workers == {1, 2}

\* the users the tokens resolve to, one per UserRole
UserIds == {1, 2, 3}
RoleOf == [u \in UserIds |->
             CASE u = 1 -> "radiologist" [] u = 2 -> "coordinator" [] u = 3 -> "admin"]
\* User.site_id: the radiologist and the coordinator work at different sites,
\* the admin has none
SiteOf == [u \in UserIds |-> CASE u = 1 -> 2 [] u = 2 -> 1 [] u = 3 -> NoId]

\* a FollowUpRecommendation with the dataclass defaults; with id NoId it stands
\* for None
NoEntity ==
    [id |-> NoId, report_id |-> NoId, patient_id |-> NoId,
     recommended_modality |-> "", interval_months |-> 0, due_date |-> NoDate,
     status |-> "pending", priority |-> "routine", assigned_to |-> NoId,
     created_by |-> NoId, created_at |-> NoDate, updated_at |-> NoDate]

\* SQLAlchemyFollowUpRepository.get_by_id
get_by_id(rows, followup_id) ==
    IF followup_id \in DOMAIN rows THEN rows[followup_id] ELSE NoEntity

\* a save that removes the row of a cancelled follow-up
save_purging(rows, followup, utcnow) ==
    IF followup.id \in DOMAIN rows /\ followup.status = "cancelled"
    THEN [rows |-> [i \in DOMAIN rows \ {followup.id} |-> rows[i]],
          entity |-> followup]
    ELSE IF followup.id \in DOMAIN rows
    THEN LET existing ==
               [rows[followup.id] EXCEPT
                   !.status = followup.status, !.updated_at = utcnow]
         IN  [rows |-> [rows EXCEPT ![followup.id] = existing], entity |-> existing]
    ELSE [rows |-> rows @@ (followup.id :> followup), entity |-> followup]

\* SQLAlchemyFollowUpRepository.save: the table after the flush and the entity
\* returned.  An existing row is updated in place, without any check of the
\* version it was loaded at; a None timestamp of a new row takes the column
\* default
save(rows, followup, utcnow) ==
    IF followup.id \in DOMAIN rows
    THEN LET existing ==
               [rows[followup.id] EXCEPT
                   !.recommended_modality = followup.recommended_modality,
                   !.interval_months = followup.interval_months,
                   !.due_date = followup.due_date,
                   !.status = followup.status,
                   !.priority = followup.priority,
                   !.assigned_to = followup.assigned_to,
                   !.updated_at = utcnow]
         IN  [rows |-> [rows EXCEPT ![followup.id] = existing], entity |-> existing]
    ELSE LET model ==
               [followup EXCEPT
                   !.created_at = IF @ = NoDate THEN utcnow ELSE @,
                   !.updated_at = IF @ = NoDate THEN utcnow ELSE @]
         IN  [rows |-> rows @@ (followup.id :> model), entity |-> model]

\* an action record with previous_status and new_status exchanged
FollowUpAction_swapped(recommendation_id, action_type, previous_status, new_status, created_by) ==
    [recommendation_id |-> recommendation_id, action_type |-> action_type,
     previous_status |-> new_status, new_status |-> previous_status,
     created_by |-> created_by]

\* FollowUpAction(...)
FollowUpAction(recommendation_id, action_type, previous_status, new_status, created_by) ==
    [recommendation_id |-> recommendation_id, action_type |-> action_type,
     previous_status |-> previous_status, new_status |-> new_status,
     created_by |-> created_by]

\* an add_action that keeps only the newest record of a recommendation
add_action_replacing(acts, action) ==
    Append(SelectSeq(acts, LAMBDA a : a.recommendation_id # action.recommendation_id),
           action)

\* SQLAlchemyFollowUpRepository.add_action
add_action(acts, action) == Append(acts, action)

\* SQLAlchemyFollowUpRepository.get_actions: the actions of one recommendation
\* in created_at order
get_actions(acts, followup_id) ==
    LET OfFollowUp(a) == a.recommendation_id = followup_id IN SelectSeq(acts, OfFollowUp)

\* a logger that records every event as a success
log_always_success(events, action, entity_type, entity_id, user_id, success) ==
    events (+) SetToBag({[action |-> action, entity_type |-> entity_type,
                          entity_id |-> entity_id, user_id |-> user_id,
                          success |-> TRUE]})

\* DatabaseAuditLogger.log
log(events, action, entity_type, entity_id, user_id, success) ==
    events (+) SetToBag({[action |-> action, entity_type |-> entity_type,
                          entity_id |-> entity_id, user_id |-> user_id,
                          success |-> success]})

\* the rows of `ids` in ascending due_date order (NULLs last); rows with equal
\* due dates come in id order, one of the orders the database may return
DueBefore(rows, i, j) ==
    LET a == rows[i].due_date
        b == rows[j].due_date
    IN  IF a = b THEN i <= j
        ELSE IF a = NoDate THEN FALSE
        ELSE IF b = NoDate THEN TRUE
        ELSE a < b

\* an ordering by descending id, whatever the due dates
RECURSIVE OrderByIdDescending(_, _)
OrderByIdDescending(rows, ids) ==
    IF ids = {} THEN << >>
    ELSE LET m == CHOOSE i \in ids : \A j \in ids : j <= i
         IN  <<rows[m]>> \o OrderByIdDescending(rows, ids \ {m})

RECURSIVE OrderByDueDate(_, _)
OrderByDueDate(rows, ids) ==
    IF ids = {} THEN << >>
    ELSE LET m == CHOOSE i \in ids : \A j \in ids : DueBefore(rows, i, j)
         IN  <<rows[m]>> \o OrderByDueDate(rows, ids \ {m})

\* the WHERE clauses of get_worklist; an absent filter adds no clause, site_id
\* adds none either
WorklistWhere(row, status, assigned_to, due_before, due_after, modality) ==
    /\ status # {} => row.status \in status
    /\ assigned_to # NoId => row.assigned_to = assigned_to
    /\ due_before # NoDate => (row.due_date # NoDate /\ row.due_date <= due_before)
    /\ due_after # NoDate => (row.due_date # NoDate /\ row.due_date >= due_after)
    /\ modality # "" => row.recommended_modality = modality

\* SQLAlchemyFollowUpRepository.get_worklist
get_worklist(rows, status, site_id, assigned_to, due_before, due_after, modality, limit, offset) ==
    LET ids == {i \in DOMAIN rows :
                  WorklistWhere(rows[i], status, assigned_to, due_before,
                                due_after, modality)}
        ordered == OrderByDueDate(rows, ids)
        last == IF offset + limit < Len(ordered) THEN offset + limit ELSE Len(ordered)
    IN  SubSeq(ordered, offset + 1, last)

\* SQLAlchemyFollowUpRepository.count_worklist
count_worklist(rows, status, site_id) ==
    Cardinality({i \in DOMAIN rows : status # {} => rows[i].status \in status})

\* ================================================= requests and their state

\* WorklistFilters() with its defaults, limit aside
NoFilters ==
    [status |-> {}, site_id |-> NoId, assigned_to |-> NoId, due_before |-> NoDate,
     due_after |-> NoDate, modality |-> "", limit |-> 0, offset |-> 0]

\* MetricsOutput() with its defaults
NoMetrics ==
    [total_followups |-> 0, total_completed |-> 0, total_overdue |-> 0,
     pending |-> 0, scheduled |-> 0, completed |-> 0, cancelled |-> 0,
     overdue |-> 0, completed_on_time |-> 0, completed_late |-> 0,
     modality_breakdown |-> << >>]

\* a request slot that runs no handler.  For a running handler the record
\* holds its local variables; nAudit, nActions and nSaves count the calls it
\* made of audit_logger.log, add_action and save; stale is set when another
\* request saves the row this one has loaded and not yet saved
IdleCall ==
    [op |-> "none", pc |-> "idle", user |-> NoId,
     followup_id |-> NoId, new_status |-> "none",
     followup |-> NoEntity, previous_status |-> "none",
     result |-> "none", nAudit |-> 0, nActions |-> 0, nSaves |-> 0,
     stale |-> FALSE,
     filters |-> NoFilters, items |-> << >>, total_count |-> 0,
     has_more |-> FALSE, metrics |-> NoMetrics]

NewCall(op, user) == [IdleCall EXCEPT !.op = op, !.user = user]

\* the handler raises `error`
Raise(call, error) == [call EXCEPT !.pc = "done", !.result = error]

\* the handler returns its output
Return(call) == [call EXCEPT !.pc = "done", !.result = "ok"]

\* what is kept of a request once it has ended
Summary(call) ==
    [op |-> call.op, result |-> call.result, nAudit |-> call.nAudit,
     nActions |-> call.nActions, nSaves |-> call.nSaves]

NoSummary == Summary(IdleCall)

\* request w goes on as `call`, or ends when `call` has ended
Step(w, call) ==
    IF call.pc = "done"
    THEN /\ calls' = [calls EXCEPT ![w] = IdleCall]
         /\ lastDone' = Summary(call)
    ELSE /\ calls' = [calls EXCEPT ![w] = call]
         /\ lastDone' = lastDone

\* a new request takes the first free slot
CanStart(w) ==
    /\ calls[w].pc = "idle"
    /\ \A x \in Workers : x < w => calls[x].pc # "idle"
    /\ nCalls < MaxCalls

\* ============================================= UpdateFollowUpStatusService

\* an execute without its own validation step: the domain method's ValueError
\* is what the caller sees
update_validate_unchecked(call, followup, utcnow) ==
    IF followup.id = NoId THEN Raise(call, "FollowUpNotFoundError")
    ELSE LET r == update_status(followup, call.new_status, utcnow) IN
         IF r.raised # "none"
         THEN Raise([call EXCEPT !.followup = r.ent,
                                 !.previous_status = followup.status], r.raised)
         ELSE [call EXCEPT !.followup = r.ent,
                           !.previous_status = followup.status,
                           !.pc = "save"]

\* execute, from the loaded follow-up to the domain update: the existence
\* check, the validation, the previous status, followup.update_status
update_validate(call, followup, utcnow) ==
    IF followup.id = NoId THEN Raise(call, "FollowUpNotFoundError")
    ELSE IF ~ can_transition_to(followup, call.new_status)
    THEN Raise([call EXCEPT !.followup = followup], "InvalidStatusTransitionError")
    ELSE LET r == update_status(followup, call.new_status, utcnow) IN
         IF r.raised # "none"
         THEN Raise([call EXCEPT !.followup = r.ent,
                                 !.previous_status = followup.status], r.raised)
         ELSE [call EXCEPT !.followup = r.ent,
                           !.previous_status = followup.status,
                           !.pc = "save"]

\* execute up to its first write: the authorization check, get_by_id, the
\* validation
UpdateStart(w, u, followup_id, new_status) ==
    LET call == [NewCall("update", u) EXCEPT !.followup_id = followup_id,
                                             !.new_status = new_status]
    IN
    /\ CanStart(w)
    /\ nCalls' = nCalls + 1
    /\ IF RoleOf[u] \notin {"coordinator", "admin"}
       THEN /\ auditLog' = log(auditLog, "update", "FollowUpRecommendation",
                               followup_id, u, FALSE)
            /\ Step(w, Raise([call EXCEPT !.nAudit = 1], "PermissionError"))
       ELSE /\ auditLog' = auditLog
            /\ Step(w, update_validate(call, get_by_id(followups, followup_id), now))
    /\ UNCHANGED <<now, entityVars, followups, actions, nextId>>

\* an action record whose previous_status is read after update_status ran
update_action_after(call) ==
    FollowUpAction(call.followup.id, "status_changed", call.followup.status,
                   call.new_status, call.user)

\* the action record execute builds after the save
update_action(call) ==
    FollowUpAction(call.followup.id, "status_changed", call.previous_status,
                   call.new_status, call.user)

\* updated_followup = await self._followup_repo.save(followup)
UpdateSave(w) ==
    LET c == calls[w]
        r == save(followups, c.followup, now)
    IN
    /\ c.op = "update" /\ c.pc = "save"
    /\ followups' = r.rows
    /\ calls' = [x \in Workers |->
                   IF x = w
                   THEN [c EXCEPT !.followup = r.entity, !.pc = "add_action",
                                  !.nSaves = @ + 1]
                   ELSE IF /\ calls[x].op = "update" /\ calls[x].pc = "save"
                           /\ calls[x].followup_id = c.followup_id
                        THEN [calls[x] EXCEPT !.stale = TRUE]
                        ELSE calls[x]]
    /\ UNCHANGED <<now, entityVars, actions, auditLog, lastDone, nextId, nCalls>>

\* saved_action = await self._followup_repo.add_action(action)
UpdateAddAction(w) ==
    LET c == calls[w] IN
    /\ c.op = "update" /\ c.pc = "add_action"
    /\ actions' = add_action(actions, update_action(c))
    /\ Step(w, [c EXCEPT !.pc = "audit", !.nActions = @ + 1])
    /\ UNCHANGED <<now, entityVars, followups, auditLog, nextId, nCalls>>

\* await self._audit_logger.log(...); return UpdateStatusOutput(...)
UpdateAuditLog(w) ==
    LET c == calls[w] IN
    /\ c.op = "update" /\ c.pc = "audit"
    /\ auditLog' = log(auditLog, "update", "FollowUpRecommendation",
                       c.followup.id, c.user, TRUE)
    /\ Step(w, Return([c EXCEPT !.nAudit = @ + 1]))
    /\ UNCHANGED <<now, entityVars, followups, actions, nextId, nCalls>>

\* an awaited repository or logger call of a service raises (the database is
\* unreachable, the statement fails): the services catch nothing, the
\* exception ends the request, and what was flushed before it stays
Fail(w) ==
    /\ calls[w].pc \in {"save", "add_action", "count", "audit"}
    /\ Step(w, Raise(calls[w], "StorageError"))
    /\ UNCHANGED <<now, entityVars, followups, actions, auditLog, nextId, nCalls>>

\* ================================================== CreateFollowUpService

\* the reports and studies tables; no handler of the model writes them
StudyTable == (1 :> [id |-> 1, patient_id |-> 1]) @@ (2 :> [id |-> 2, patient_id |-> 2])
ReportTable ==
    (1 :> [id |-> 1, study_id |-> 1, finalized_at |-> 0]) @@
    (2 :> [id |-> 2, study_id |-> 2, finalized_at |-> NoDate])

\* what a request may name: report and study 3 are in neither table
ReportIdInputs == {1, 2, 3}
StudyIdInputs == {1, 3}
IntervalInputs == {1, 2}

\* execute up to its first write: the authorization check, the report lookup,
\* the entity and its due date
CreateStart(w, u, report_id, interval_months) ==
    LET call == NewCall("create", u)
        report == ReportTable[report_id]
        followup == [NoEntity EXCEPT
                        !.id = nextId,
                        !.report_id = report_id,
                        !.patient_id = report.study_id,
                        !.recommended_modality = "CT",
                        !.interval_months = interval_months,
                        !.created_by = u,
                        !.created_at = now]
        reference_date == IF report.finalized_at # NoDate
                          THEN report.finalized_at ELSE now
    IN
    /\ CanStart(w)
    /\ nCalls' = nCalls + 1
    /\ IF RoleOf[u] \notin {"radiologist", "admin"}
       THEN /\ auditLog' = log(auditLog, "create", "FollowUpRecommendation",
                               NoId, u, FALSE)
            /\ Step(w, Raise([call EXCEPT !.nAudit = 1], "PermissionError"))
            /\ nextId' = nextId
       ELSE IF report_id \notin DOMAIN ReportTable
       THEN /\ Step(w, Raise(call, "ReportNotFoundError"))
            /\ UNCHANGED <<auditLog, nextId>>
       ELSE /\ nextId <= MaxRecs
            /\ nextId' = nextId + 1
            /\ Step(w, [call EXCEPT
                          !.followup = calculate_due_date(followup, reference_date, now),
                          !.followup_id = nextId,
                          !.pc = "save"])
            /\ auditLog' = auditLog
    /\ UNCHANGED <<now, entityVars, followups, actions>>

\* saved_followup = await self._followup_repo.save(followup)
CreateSave(w) ==
    LET c == calls[w]
        r == save(followups, c.followup, now)
    IN
    /\ c.op = "create" /\ c.pc = "save"
    /\ followups' = r.rows
    /\ Step(w, [c EXCEPT !.followup = r.entity, !.pc = "add_action", !.nSaves = @ + 1])
    /\ UNCHANGED <<now, entityVars, actions, auditLog, nextId, nCalls>>

\* await self._followup_repo.add_action(action)
CreateAddAction(w) ==
    LET c == calls[w] IN
    /\ c.op = "create" /\ c.pc = "add_action"
    /\ actions' = add_action(actions,
                     FollowUpAction(c.followup.id, "created", "none",
                                    c.followup.status, c.user))
    /\ Step(w, [c EXCEPT !.pc = "audit", !.nActions = @ + 1])
    /\ UNCHANGED <<now, entityVars, followups, auditLog, nextId, nCalls>>

\* await self._audit_logger.log(...); return CreateFollowUpOutput(...)
CreateAuditLog(w) ==
    LET c == calls[w] IN
    /\ c.op = "create" /\ c.pc = "audit"
    /\ auditLog' = log(auditLog, "create", "FollowUpRecommendation",
                       c.followup.id, c.user, TRUE)
    /\ Step(w, Return([c EXCEPT !.nAudit = @ + 1]))
    /\ UNCHANGED <<now, entityVars, followups, actions, nextId, nCalls>>

\* ===================================================== POST /followups

\* create_followup: the patient and the report the request resolves to
route_resolve(study_id, report_id) ==
    LET study_found == study_id # NoId /\ study_id \in DOMAIN StudyTable
        study_reports == {r \in DOMAIN ReportTable : ReportTable[r].study_id = study_id}
        rid == IF study_id # NoId /\ study_reports # {}
               THEN CHOOSE r \in study_reports : TRUE
               ELSE report_id
        pid1 == IF study_found THEN StudyTable[study_id].patient_id ELSE NoId
        pid2 == IF pid1 = NoId /\ rid # NoId /\ rid \in DOMAIN ReportTable
                   /\ ReportTable[rid].study_id \in DOMAIN StudyTable
                THEN StudyTable[ReportTable[rid].study_id].patient_id
                ELSE pid1
    IN  [patient_id |-> pid2, report_id |-> rid]

\* create_followup: the whole handler; the INSERT and its commit are its only
\* write, and a failing statement is rolled back and answered with 400
RouteCreate(w, u, study_id, report_id, interval_months) ==
    LET call == NewCall("route_create", u)
        r == route_resolve(study_id, report_id)
        row == [NoEntity EXCEPT
                   !.id = nextId,
                   !.report_id = r.report_id,
                   !.patient_id = r.patient_id,
                   !.recommended_modality = "CT",
                   !.interval_months = interval_months,
                   !.due_date = now + interval_months * DaysPerMonth * TicksPerDay,
                   !.status = "pending",
                   !.created_by = u,
                   !.created_at = now,
                   !.updated_at = now]
    IN
    /\ CanStart(w)
    /\ nCalls' = nCalls + 1
    /\ IF r.patient_id = NoId \/ r.report_id \notin DOMAIN ReportTable
       THEN /\ Step(w, Raise(call, "HTTP400"))
            /\ UNCHANGED <<followups, nextId>>
       ELSE /\ nextId <= MaxRecs
            /\ nextId' = nextId + 1
            /\ followups' = followups @@ (nextId :> row)
            /\ Step(w, Return([call EXCEPT !.followup = row, !.followup_id = nextId]))
    /\ UNCHANGED <<now, entityVars, actions, auditLog>>

\* ===================================================== ListWorklistService

\* timedelta.days of a difference of `delta` clock units: whole days, rounded
\* toward minus infinity
timedelta_days(delta) == delta \div TicksPerDay

\* an enrichment loop whose day count rounds toward zero
WorklistItem_truncating(followup, utcnow) ==
    LET d == followup.due_date - utcnow
        delta == IF d >= 0 THEN d \div TicksPerDay ELSE 0 - ((0 - d) \div TicksPerDay)
    IN
    IF followup.due_date # NoDate
    THEN [followup |-> followup, has_days |-> TRUE, days_until_due |-> delta,
          is_overdue |-> (delta < 0 /\ followup.status \notin {"completed", "cancelled"})]
    ELSE [followup |-> followup, has_days |-> FALSE, days_until_due |-> 0,
          is_overdue |-> FALSE]

\* the enrichment loop: days_until_due (has_days FALSE for None) and is_overdue
WorklistItem(followup, utcnow) ==
    LET delta == timedelta_days(followup.due_date - utcnow) IN
    IF followup.due_date # NoDate
    THEN [followup |-> followup, has_days |-> TRUE, days_until_due |-> delta,
          is_overdue |-> (delta < 0 /\ followup.status \notin {"completed", "cancelled"})]
    ELSE [followup |-> followup, has_days |-> FALSE, days_until_due |-> 0,
          is_overdue |-> FALSE]

\* the filters a worklist request may carry
WorklistFilterInputs ==
    {[NoFilters EXCEPT !.status = st, !.limit = 1] : st \in {{}, {"pending"}}}

\* execute up to the first query: the site restriction and get_worklist with
\* limit + 1
WorklistStart(w, u, filters) ==
    LET effective_site_id == IF RoleOf[u] # "admin" THEN SiteOf[u] ELSE filters.site_id
        rows == get_worklist(followups, filters.status, effective_site_id,
                             filters.assigned_to, filters.due_before,
                             filters.due_after, filters.modality,
                             filters.limit + 1, filters.offset)
    IN
    /\ CanStart(w)
    /\ nCalls' = nCalls + 1
    /\ Step(w, [NewCall("worklist", u) EXCEPT
                   !.filters = [filters EXCEPT !.site_id = effective_site_id],
                   !.items = rows, !.pc = "count"])
    /\ UNCHANGED <<now, entityVars, followups, actions, auditLog, nextId>>

\* count_worklist, has_more and the enrichment of the page
WorklistCount(w) ==
    LET c == calls[w]
        has_more == Len(c.items) > c.filters.limit
        page == IF has_more THEN SubSeq(c.items, 1, c.filters.limit) ELSE c.items
    IN
    /\ c.op = "worklist" /\ c.pc = "count"
    /\ Step(w, [c EXCEPT
                   !.total_count = count_worklist(followups, c.filters.status,
                                                  c.filters.site_id),
                   !.has_more = has_more,
                   !.items = [i \in 1..Len(page) |-> WorklistItem(page[i], now)],
                   !.pc = "audit"])
    /\ UNCHANGED <<now, entityVars, followups, actions, auditLog, nextId, nCalls>>

\* await self._audit_logger.log(...); return WorklistOutput(...)
WorklistAuditLog(w) ==
    LET c == calls[w] IN
    /\ c.op = "worklist" /\ c.pc = "audit"
    /\ auditLog' = log(auditLog, "read", "FollowUpRecommendation", NoId, c.user, TRUE)
    /\ Step(w, Return([c EXCEPT !.nAudit = @ + 1]))
    /\ UNCHANGED <<now, entityVars, followups, actions, nextId, nCalls>>

\* =================================================== GenerateMetricsService

MetricsLimit == 10000

\* the status, overdue and modality loops over all_followups
metrics_of(all, utcnow) ==
    LET Count(P(_)) == Cardinality({i \in 1..Len(all) : P(all[i])})
        IsPending(f) == f.status = "pending"
        IsScheduled(f) == f.status = "scheduled"
        IsCompleted(f) == f.status = "completed"
        IsCancelled(f) == f.status = "cancelled"
        IsOverdue(f) == is_overdue(f, utcnow)
        Timed(f) == f.status = "completed" /\ f.updated_at # NoDate /\ f.due_date # NoDate
        OnTime(f) == Timed(f) /\ f.updated_at <= f.due_date
        Late(f) == Timed(f) /\ ~ (f.updated_at <= f.due_date)
        Mod(f) == IF f.recommended_modality # "" THEN f.recommended_modality
                  ELSE "Unknown"
        mods == {Mod(all[i]) : i \in 1..Len(all)}
    IN  [total_followups |-> Len(all),
         total_completed |-> Count(IsCompleted),
         total_overdue |-> Count(IsOverdue),
         pending |-> Count(IsPending),
         scheduled |-> Count(IsScheduled),
         completed |-> Count(IsCompleted),
         cancelled |-> Count(IsCancelled),
         overdue |-> Count(IsOverdue),
         completed_on_time |-> Count(OnTime),
         completed_late |-> Count(Late),
         modality_breakdown |->
             [m \in mods |-> Cardinality({i \in 1..Len(all) : Mod(all[i]) = m})]]

\* execute up to the audit log: get_worklist(site_id, limit=10000) and the
\* counting loops
MetricsStart(w, u) ==
    LET all_followups == get_worklist(followups, {}, NoId, NoId, NoDate, NoDate,
                                      "", MetricsLimit, 0)
    IN
    /\ CanStart(w)
    /\ nCalls' = nCalls + 1
    /\ Step(w, [NewCall("metrics", u) EXCEPT
                   !.metrics = metrics_of(all_followups, now), !.pc = "audit"])
    /\ UNCHANGED <<now, entityVars, followups, actions, auditLog, nextId>>

\* await self._audit_logger.log(...); return MetricsOutput(...)
MetricsAuditLog(w) ==
    LET c == calls[w] IN
    /\ c.op = "metrics" /\ c.pc = "audit"
    /\ auditLog' = log(auditLog, "read", "Metrics", NoId, c.user, TRUE)
    /\ Step(w, Return([c EXCEPT !.nAudit = @ + 1]))
    /\ UNCHANGED <<now, entityVars, followups, actions, nextId, nCalls>>

\* ================================================ LinkSupabaseUserService

\* table users before any link request: the three users the tokens resolve
\* to, keyed by supabase_user_id
UserTable ==
    [sub \in {"sub-1", "sub-2", "sub-3"} |->
        LET u == CASE sub = "sub-1" -> 1 [] sub = "sub-2" -> 2 [] sub = "sub-3" -> 3
        IN  [id |-> u, supabase_user_id |-> sub, role |-> RoleOf[u],
             site_id |-> SiteOf[u], is_active |-> TRUE]]

\* LinkUserInput: the Supabase identities and roles a request may carry
LinkUserInputs == [supabase_user_id : {"", "sub-2", "sub-4"}, role : Roles, site_id : {NoId, 1}]

NoLinkCall ==
    [op |-> "none", supabase_user_id |-> "", role |-> "none", current_role |-> "none",
     raised |-> "none", is_new |-> FALSE]

\* SQLAlchemyUserRepository.get_by_supabase_id; NoUser stands for None
get_by_supabase_id(rows, supabase_user_id) ==
    IF supabase_user_id \in DOMAIN rows THEN rows[supabase_user_id] ELSE NoUser

\* SQLAlchemyUserRepository.save: update the row with the user's id, or add one
user_save(rows, user) ==
    IF \E sub \in DOMAIN rows : rows[sub].id = user.id
    THEN [sub \in DOMAIN rows |->
             IF rows[sub].id = user.id
             THEN [rows[sub] EXCEPT !.role = user.role, !.site_id = user.site_id,
                                    !.is_active = user.is_active]
             ELSE rows[sub]]
    ELSE rows @@ (user.supabase_user_id :> user)

\* LinkSupabaseUserService.execute up to its audit log: the table after the
\* call, the exception raised, and the LinkUserOutput; current_user NoUser
\* stands for None, a new User gets a fresh id
link_execute(rows, input_data, current_user) ==
    LET existing_user == get_by_supabase_id(rows, input_data.supabase_user_id)
        updated == [existing_user EXCEPT !.role = input_data.role,
                                         !.site_id = input_data.site_id]
        effective_role == IF current_user = NoUser /\ input_data.role # "radiologist"
                          THEN "radiologist"
                          ELSE input_data.role
        new_user == [id |-> Cardinality(DOMAIN rows) + 1,
                     supabase_user_id |-> input_data.supabase_user_id,
                     role |-> effective_role,
                     site_id |-> input_data.site_id, is_active |-> TRUE]
    IN  IF existing_user # NoUser
        THEN IF input_data.role # existing_user.role
                /\ (current_user = NoUser \/ current_user.role # "admin")
             THEN [rows |-> rows, raised |-> "PermissionError", is_new |-> FALSE,
                   user |-> NoUser]
             ELSE [rows |-> user_save(rows, updated), raised |-> "none",
                   is_new |-> FALSE, user |-> updated]
        ELSE IF post_init(new_user) # "none"
             THEN [rows |-> rows, raised |-> post_init(new_user), is_new |-> FALSE,
                   user |-> NoUser]
             ELSE [rows |-> user_save(rows, new_user), raised |-> "none",
                   is_new |-> TRUE, user |-> new_user]

\* one call of execute, with its audit event
LinkExecute(input_data, current_user) ==
    LET r == link_execute(users, input_data, current_user) IN
    /\ nCalls < MaxCalls
    /\ nCalls' = nCalls + 1
    /\ users' = r.rows
    /\ auditLog' =
          IF r.raised # "none" THEN auditLog
          ELSE log(auditLog, IF r.is_new THEN "create" ELSE "update", "User", r.user.id,
                   IF current_user # NoUser THEN current_user.id ELSE r.user.id, TRUE)
    /\ linkCall' = [op |-> "execute",
                    supabase_user_id |-> input_data.supabase_user_id,
                    role |-> input_data.role,
                    current_role |-> IF current_user # NoUser THEN current_user.role
                                     ELSE "none",
                    raised |-> r.raised, is_new |-> r.is_new]
    /\ UNCHANGED <<now, ent, entBefore, entCall, entLog, userVars, valueVars,
                   followups, actions, calls, lastDone, nextId>>

\* ========================================================= specifications

\* the follow-up CreateFollowUpService.execute persists for report 1, asked
\* for by the radiologist at time 0 with a one-month interval
SeedFollowUp ==
    save(<< >>,
         calculate_due_date([NoEntity EXCEPT
                                !.id = 1, !.report_id = 1,
                                !.patient_id = ReportTable[1].study_id,
                                !.recommended_modality = "CT",
                                !.interval_months = 1,
                                !.created_by = 1, !.created_at = 0],
                            ReportTable[1].finalized_at, 0),
         0)

\* the tables hold one follow-up, created through CreateFollowUpService, with
\* its action record and its audit event; no request is running
InitService ==
    /\ followups = SeedFollowUp.rows
    /\ actions = add_action(<< >>, FollowUpAction(1, "created", "none",
                                                 SeedFollowUp.entity.status, 1))
    /\ auditLog = log(EmptyBag, "create", "FollowUpRecommendation", 1, 1, TRUE)
    /\ calls = [w \in Workers |-> IdleCall]
    /\ lastDone = NoSummary
    /\ nextId = 2
    /\ nCalls = 0

InitValueIdle ==
    /\ interval = NoInterval
    /\ intervalCall = NoIntervalCall
    /\ reportEnt = NoReport
    /\ reportCall = NoReportCall

InitLinkIdle ==
    /\ users = UserTable
    /\ linkCall = NoLinkCall

InitUserIdle ==
    /\ userEnt = NoUser
    /\ userCall = NoUserCall
    /\ InitValueIdle
    /\ InitLinkIdle

InitEntityIdle ==
    /\ ent = NoEntity
    /\ entBefore = NoEntity
    /\ entCall = NoCall
    /\ entLog = << >>
    /\ InitUserIdle

Init ==
    /\ now = 0
    /\ InitEntityIdle
    /\ InitService

Next ==
    \/ Tick
    \/ \E w \in Workers, u \in UserIds, id \in 1..MaxRecs, t \in Statuses :
          UpdateStart(w, u, id, t)
    \/ \E w \in Workers : UpdateSave(w)
    \/ \E w \in Workers : UpdateAddAction(w)
    \/ \E w \in Workers : UpdateAuditLog(w)
    \/ \E w \in Workers, u \in UserIds, r \in ReportIdInputs, m \in IntervalInputs :
          CreateStart(w, u, r, m)
    \/ \E w \in Workers : CreateSave(w)
    \/ \E w \in Workers : CreateAddAction(w)
    \/ \E w \in Workers : CreateAuditLog(w)
    \/ \E w \in Workers, u \in UserIds, s \in StudyIdInputs \cup {NoId},
          r \in ReportIdInputs \cup {NoId}, m \in IntervalInputs :
          RouteCreate(w, u, s, r, m)
    \/ \E w \in Workers, u \in UserIds, f \in WorklistFilterInputs :
          WorklistStart(w, u, f)
    \/ \E w \in Workers : WorklistCount(w)
    \/ \E w \in Workers : WorklistAuditLog(w)
    \/ \E w \in Workers, u \in UserIds : MetricsStart(w, u)
    \/ \E w \in Workers : MetricsAuditLog(w)
    \/ \E w \in Workers : Fail(w)

Spec == Init /\ [][Next]_vars

\* SpecUpdate: concurrent requests that all run
\* UpdateFollowUpStatusService.execute, against the same tables
NextUpdate ==
    \/ Tick
    \/ \E w \in Workers, u \in UserIds, id \in 1..MaxRecs, t \in Statuses :
          UpdateStart(w, u, id, t)
    \/ \E w \in Workers : UpdateSave(w)
    \/ \E w \in Workers : UpdateAddAction(w)
    \/ \E w \in Workers : UpdateAuditLog(w)
    \/ \E w \in Workers : Fail(w)

SpecUpdate == Init /\ [][NextUpdate]_vars

\* SpecLifecycle: concurrent requests running any of the services or the POST
\* route, all at one reading of the clock; follow-ups are created with a
\* one-month interval, the worklist is read by the coordinator and the metrics
\* by the admin
NextLifecycle ==
    \/ \E w \in Workers, u \in UserIds, id \in 1..MaxRecs, t \in Statuses :
          UpdateStart(w, u, id, t)
    \/ \E w \in Workers : UpdateSave(w)
    \/ \E w \in Workers : UpdateAddAction(w)
    \/ \E w \in Workers : UpdateAuditLog(w)
    \/ \E w \in Workers, u \in UserIds, r \in ReportIdInputs : CreateStart(w, u, r, 1)
    \/ \E w \in Workers, u \in UserIds, s \in StudyIdInputs : RouteCreate(w, u, s, NoId, 1)
    \/ \E w \in Workers : CreateSave(w)
    \/ \E w \in Workers : CreateAddAction(w)
    \/ \E w \in Workers : CreateAuditLog(w)
    \/ \E w \in Workers, f \in WorklistFilterInputs : WorklistStart(w, 2, f)
    \/ \E w \in Workers : WorklistCount(w)
    \/ \E w \in Workers : WorklistAuditLog(w)
    \/ \E w \in Workers : MetricsStart(w, 3)
    \/ \E w \in Workers : MetricsAuditLog(w)
    \/ \E w \in Workers : Fail(w)

SpecLifecycle == Init /\ [][NextLifecycle]_vars

\* SpecEntity: one entity object and calls of its methods
InitEntity ==
    /\ now \in 0..1
    /\ ent \in EntityInputs(now)
    /\ entBefore = ent
    /\ entCall = NoCall
    /\ entLog = << >>
    /\ InitUserIdle
    /\ InitService

NextEntity ==
    \/ Tick
    \/ \E t \in Statuses : EntityCanTransitionTo(t) /\ UNCHANGED entLog
    \/ \E t \in Statuses : EntityUpdateStatus(t) /\ UNCHANGED entLog
    \/ \E d \in ReferenceDateInputs : EntityCalculateDueDate(d) /\ UNCHANGED entLog
    \/ EntityIsOverdue /\ UNCHANGED entLog

SpecEntity == InitEntity /\ [][NextEntity]_vars

\* SpecScenario: a recommendation constructed with the defaults and an
\* interval of six months, and the record of the calls made on it
MaxLog == 4

InitScenario ==
    /\ now = 0
    /\ ent = [NoEntity EXCEPT !.id = 1, !.interval_months = 6]
    /\ entBefore = ent
    /\ entCall = NoCall
    /\ entLog = << >>
    /\ InitUserIdle
    /\ InitService

\* the call just made is recorded
Logged ==
    /\ Len(entLog) < MaxLog
    /\ entLog' = Append(entLog, entCall')

NextScenario ==
    \/ Tick
    \/ \E t \in Statuses : EntityUpdateStatus(t) /\ Logged
    \/ \E d \in {NoDate, Date2024(6, 1)} : EntityCalculateDueDate(d) /\ Logged

SpecScenario == InitScenario /\ [][NextScenario]_vars

\* SpecUser: User objects are constructed and asked for permissions
InitUser ==
    /\ now = 0
    /\ InitEntityIdle
    /\ InitService

NextUser ==
    \/ Tick
    \/ \E args \in UserInputs : UserNew(args)
    \/ \E r \in Roles : UserHasPermission(r)

SpecUser == InitUser /\ [][NextUser]_vars

\* SpecDomain: a RecommendationInterval and a RadiologyReport, constructed with
\* arbitrary field values, and calls of their methods
InitDomain ==
    /\ now = 0
    /\ ent = NoEntity
    /\ entBefore = NoEntity
    /\ entCall = NoCall
    /\ entLog = << >>
    /\ userEnt = NoUser
    /\ userCall = NoUserCall
    /\ interval = NoInterval
    /\ intervalCall = NoIntervalCall
    /\ reportEnt \in ReportInputs
    /\ reportEnt.finalized_at # NoDate => reportEnt.finalized_at <= now
    /\ reportCall = NoReportCall
    /\ InitLinkIdle
    /\ InitService

NextDomain ==
    \/ Tick
    \/ \E args \in RecommendationIntervalInputs : IntervalNew(args)
    \/ IntervalToDays
    \/ ReportFinalize

SpecDomain == InitDomain /\ [][NextDomain]_vars

\* SpecLink: calls of LinkSupabaseUserService.execute, one after another; the
\* caller is nobody (self-registration) or one of the users of the table
InitLink ==
    /\ now = 0
    /\ InitEntityIdle
    /\ InitService

NextLink ==
    \E input_data \in LinkUserInputs :
    \E current_user \in {NoUser} \cup {users[sub] : sub \in DOMAIN users} :
        LinkExecute(input_data, current_user)

SpecLink == InitLink /\ [][NextLink]_vars

\* no request is running
Sequential == \A x \in Workers : calls[x].pc = "idle"

\* SpecSequential: requests that create follow-ups through
\* CreateFollowUpService and change their status, each started when the one
\* before has run to completion
NextSequential ==
    \/ Tick
    \/ \E w \in Workers, u \in UserIds, id \in 1..MaxRecs, t \in Statuses :
          Sequential /\ UpdateStart(w, u, id, t)
    \/ \E w \in Workers : UpdateSave(w)
    \/ \E w \in Workers : UpdateAddAction(w)
    \/ \E w \in Workers : UpdateAuditLog(w)
    \/ \E w \in Workers, u \in UserIds, r \in ReportIdInputs, m \in IntervalInputs :
          Sequential /\ CreateStart(w, u, r, m)
    \/ \E w \in Workers : CreateSave(w)
    \/ \E w \in Workers : CreateAddAction(w)
    \/ \E w \in Workers : CreateAuditLog(w)

SpecSequential == Init /\ [][NextSequential]_vars

\* SpecQuery: the worklist and the metrics are read, one request after
\* another, from a followups table that holds two rows of any status and due
\* date; row 1 was created by the radiologist, row 2 by the coordinator
PersistedRows(id) ==
    {[NoEntity EXCEPT !.id = id, !.report_id = 1, !.patient_id = 1,
                      !.recommended_modality = IF id = 1 THEN "CT" ELSE "",
                      !.interval_months = 1, !.due_date = d, !.status = st,
                      !.created_by = id, !.created_at = 0] :
        d \in {NoDate} \cup 0..MaxTime, st \in Statuses}

QueryFilterInputs ==
    {[NoFilters EXCEPT !.status = st, !.due_before = db, !.limit = l, !.offset = o] :
        st \in {{}, {"pending"}}, db \in {NoDate, 0}, l \in {1, 2}, o \in {0, 1}}

InitQuery ==
    /\ now = 0
    /\ InitEntityIdle
    /\ followups \in {(1 :> r1) @@ (2 :> r2) :
                         r1 \in PersistedRows(1), r2 \in PersistedRows(2)}
    /\ actions = << >>
    /\ auditLog = EmptyBag
    /\ calls = [w \in Workers |-> IdleCall]
    /\ lastDone = NoSummary
    /\ nextId = 3
    /\ nCalls = 0

NextQuery ==
    \/ Tick
    \/ \E w \in Workers, u \in {2, 3}, f \in QueryFilterInputs :
          Sequential /\ WorklistStart(w, u, f)
    \/ \E w \in Workers : WorklistCount(w)
    \/ \E w \in Workers : WorklistAuditLog(w)
    \/ \E w \in Workers : Sequential /\ MetricsStart(w, 3)
    \/ \E w \in Workers : MetricsAuditLog(w)

SpecQuery == InitQuery /\ [][NextQuery]_vars


\* ================================================================ properties

\* the transition table as the specification lists it, as pairs <<s, t>>
TransitionTable ==
    {<<"pending", "scheduled">>, <<"pending", "completed">>, <<"pending", "cancelled">>,
     <<"scheduled", "pending">>, <<"scheduled", "completed">>, <<"scheduled", "cancelled">>,
     <<"completed", "pending">>,
     <<"cancelled", "pending">>,
     <<"overdue", "scheduled">>, <<"overdue", "completed">>, <<"overdue", "cancelled">>}

\* the fields update_status must not write
FrameFields ==
    {"id", "report_id", "patient_id", "recommended_modality", "interval_months",
     "due_date", "priority", "assigned_to", "created_by", "created_at"}

C2_CompletedIsTerminal ==
    (entBefore.status = "completed" /\ entCall.arg = "pending") =>
        /\ entCall.op = "can_transition_to" => entCall.ret = FALSE
        /\ entCall.op = "update_status" =>
              (entCall.raised = "ValueError" /\ ent.status = "completed")

\* C3: update_status(t) called when can_transition_to(t) is false raises and
\* changes nothing: every field is as it was before the call.
C3_InvalidUpdateChangesNothing ==
    (entCall.op = "update_status" /\ ~ can_transition_to(entBefore, entCall.arg)) =>
        /\ entCall.raised = "ValueError"
        /\ \A f \in DOMAIN entBefore : ent[f] = entBefore[f]

C3_Witness ==
    /\ entCall.op = "update_status"
    /\ entBefore.status = "completed"
    /\ entCall.arg = "scheduled"
    /\ entCall.raised = "ValueError"
    /\ entBefore.updated_at # entCall.at

\* C4: update_status(t) called when can_transition_to(t) is true sets status
\* to t, sets updated_at to the current time, which is never earlier than the
\* previous updated_at, and leaves every other field unchanged.
C4_ValidUpdateFrame ==
    (entCall.op = "update_status" /\ can_transition_to(entBefore, entCall.arg)) =>
        /\ entCall.raised = "none"
        /\ ent.status = entCall.arg
        /\ ent.updated_at = entCall.at
        /\ ent.updated_at >= entBefore.updated_at
        /\ \A f \in FrameFields : ent[f] = entBefore[f]

C4_Witness ==
    /\ entCall.op = "update_status"
    /\ entBefore.status = "pending"
    /\ entCall.arg = "scheduled"
    /\ ent.status = "scheduled"
    /\ entBefore.updated_at = 0
    /\ ent.updated_at = 1

\* C5: every successful UpdateFollowUpStatusService.execute appends exactly
\* one FollowUpAction for its recommendation, of type status_changed, whose
\* previous_status is the status the recommendation had when the call loaded
\* it, whose new_status is the requested target and whose actor is the caller;
\* nothing else adds an action record.
C5_OneStatusChangedAction ==
    [][/\ \A w \in Workers :
             (calls[w].pc = "idle" /\ calls'[w].op = "update" /\ calls'[w].pc = "save") =>
                 calls'[w].previous_status = followups[calls'[w].followup_id].status
       /\ \A w \in Workers :
             (calls[w].op = "update" /\ calls'[w].op = "update") =>
                 /\ calls'[w].previous_status = calls[w].previous_status
                 /\ calls'[w].new_status = calls[w].new_status
                 /\ calls'[w].followup_id = calls[w].followup_id
                 /\ calls'[w].user = calls[w].user
       /\ actions' # actions =>
             \E w \in Workers :
                 /\ calls[w].op = "update" /\ calls[w].pc = "add_action"
                 /\ calls'[w].pc = "audit"
                 /\ calls'[w].nActions = calls[w].nActions + 1
                 /\ actions' = Append(actions,
                        [recommendation_id |-> calls[w].followup_id,
                         action_type |-> "status_changed",
                         previous_status |-> calls[w].previous_status,
                         new_status |-> calls[w].new_status,
                         created_by |-> calls[w].user])
       /\ (lastDone'.op = "update" /\ lastDone'.result = "ok") =>
             lastDone'.nActions = 1
      ]_vars

C5_Witness ==
    /\ lastDone.op = "update" /\ lastDone.result = "ok"
    /\ Len(actions) = 2
    /\ actions[2] = [recommendation_id |-> 1, action_type |-> "status_changed",
                     previous_status |-> "pending", new_status |-> "scheduled",
                     created_by |-> 2]

\* C6: the status update and its action are one unit of work: whenever no
\* request is running, also after a request failed between its save and its
\* add_action, the persisted status of every recommendation is the new_status
\* of its latest action record.
C6_StatusAndActionOneUnit ==
    (\A w \in Workers : calls[w].pc = "idle") =>
        \A id \in DOMAIN followups :
            LET mine == {i \in 1..Len(actions) : actions[i].recommendation_id = id}
                latest == CHOOSE i \in mine : \A j \in mine : j <= i
            IN  mine # {} /\ actions[latest].new_status = followups[id].status

\* C7: of two updates of one recommendation that both load it before either
\* saves, one fails cleanly: a request whose loaded row was saved by another
\* request in the meantime never writes the row itself.
C7_RacingUpdateFailsCleanly ==
    \A w \in Workers : calls[w].stale => calls[w].nSaves = 0

\* C8: in every execution, interleaved updates of one recommendation
\* included, each change of a persisted status goes from a status s to a
\* status t the transition table allows from s.
C8_PersistedChangesFollowTable ==
    [][\A id \in DOMAIN followups :
          (id \in DOMAIN followups' /\ followups'[id].status # followups[id].status) =>
              <<followups[id].status, followups'[id].status>> \in TransitionTable
      ]_vars

\* C9: UpdateFollowUpStatusService.execute with a target the table does not
\* allow from the recommendation's current status fails at once with
\* InvalidStatusTransitionError, without calling save or add_action: the
\* tables are unchanged.
C9_InvalidTargetNoEffect ==
    [][nCalls' # nCalls =>
          \A w \in Workers, u \in {x \in UserIds : RoleOf[x] \in {"coordinator", "admin"}},
             id \in DOMAIN followups :
            \A t \in {x \in Statuses : <<followups[id].status, x>> \notin TransitionTable} :
              UpdateStart(w, u, id, t) =>
                  /\ lastDone' = [op |-> "update",
                                  result |-> "InvalidStatusTransitionError",
                                  nAudit |-> 0, nActions |-> 0, nSaves |-> 0]
                  /\ calls'[w] = IdleCall
                  /\ followups' = followups
                  /\ actions' = actions
      ]_vars

C9_Witness ==
    /\ lastDone.op = "update"
    /\ lastDone.result = "InvalidStatusTransitionError"
    /\ lastDone.nSaves = 0 /\ lastDone.nActions = 0
    /\ followups[1].status = "completed"

\* C10: every state-mutating operation (CreateFollowUpService.execute,
\* UpdateFollowUpStatusService.execute, creation through POST /followups) and
\* every bulk read (ListWorklistService.execute,
\* GenerateMetricsService.execute) that returns has called the audit logger
\* exactly once.
C10_AuditLoggedExactlyOnce ==
    (/\ lastDone.op \in {"create", "update", "route_create", "worklist", "metrics"}
     /\ lastDone.result = "ok") =>
        lastDone.nAudit = 1

\* C12: for every interval_months m and reference date d,
\* calculate_due_date(d) returns exactly d + 30*m days and stores that value
\* in due_date (m=3, d=2024-01-01 gives +90 days; m=6, d=2024-06-01 gives
\* 2024-11-28); without a reference date the current time is d.
C12_DueDateIsThirtyDaysPerMonth ==
    entCall.op = "calculate_due_date" =>
        LET m == entBefore.interval_months
            d == IF entCall.ref = NoDate THEN entCall.at ELSE entCall.ref
        IN  /\ entCall.val = d + 30 * m * TicksPerDay
            /\ ent.due_date = entCall.val
            /\ (m = 3 /\ entCall.ref = Date2024(1, 1)) => entCall.val = d + 90 * TicksPerDay
            /\ (m = 6 /\ entCall.ref = Date2024(6, 1)) => entCall.val = Date2024(11, 28)

C12_Witness ==
    /\ entCall.op = "calculate_due_date"
    /\ entBefore.interval_months = 6
    /\ entCall.ref = Date2024(6, 1)
    /\ ent.due_date = Date2024(11, 28)

\* C13: is_overdue() is false when due_date is absent, false when the status
\* is completed or cancelled, and otherwise true exactly when the current
\* time is strictly later than due_date; the call changes no field.
C13_IsOverdue ==
    entCall.op = "is_overdue" =>
        /\ entBefore.due_date = NoDate => entCall.ret = FALSE
        /\ entBefore.status \in {"completed", "cancelled"} => entCall.ret = FALSE
        /\ (entBefore.due_date # NoDate /\ entBefore.status \notin {"completed", "cancelled"}) =>
              entCall.ret = (entCall.at > entBefore.due_date)
        /\ entCall.at = entBefore.due_date => entCall.ret = FALSE
        /\ \A f \in DOMAIN entBefore : ent[f] = entBefore[f]

C13_Witness ==
    /\ entCall.op = "is_overdue"
    /\ entBefore.status = "pending"
    /\ entBefore.due_date = 0
    /\ entCall.at = 1
    /\ entCall.ret = TRUE

\* C16: end-to-end trace: a recommendation with interval_months 6 whose due
\* date is computed from 2024-06-01 is due 2024-11-28 with status pending;
\* update_status to scheduled then succeeds; update_status to cancelled then
\* succeeds; update_status to completed then fails and the status stays
\* cancelled.
C16_EndToEndTrace ==
    LET n == Len(entLog)
        Updated(i, t) == entLog[i].op = "update_status" /\ entLog[i].arg = t
        c1 == n >= 1 /\ entLog[1].op = "calculate_due_date"
                     /\ entLog[1].ref = Date2024(6, 1)
        c2 == c1 /\ n >= 2 /\ Updated(2, "scheduled")
        c3 == c2 /\ n >= 3 /\ Updated(3, "cancelled")
        c4 == c3 /\ n >= 4 /\ Updated(4, "completed")
    IN  /\ c1 => (entLog[1].val = Date2024(11, 28) /\ entLog[1].status = "pending")
        /\ c2 => (entLog[2].raised = "none" /\ entLog[2].status = "scheduled")
        /\ c3 => (entLog[3].raised = "none" /\ entLog[3].status = "cancelled")
        /\ c4 => (entLog[4].raised = "ValueError" /\ entLog[4].status = "cancelled")

C16_Witness ==
    /\ Len(entLog) = 4
    /\ entLog[1].op = "calculate_due_date" /\ entLog[1].ref = Date2024(6, 1)
    /\ entLog[2].op = "update_status" /\ entLog[2].arg = "scheduled"
    /\ entLog[3].op = "update_status" /\ entLog[3].arg = "cancelled"
    /\ entLog[4].op = "update_status" /\ entLog[4].arg = "completed"
    /\ entLog[4].raised = "ValueError"
    /\ ent.status = "cancelled" /\ ent.due_date = Date2024(11, 28)

\* C19: User.has_permission(required) is true exactly when the user's role
\* ranks at least as high as required in admin > coordinator > radiologist:
\* an admin has every permission, a radiologist the radiologist one only.
C19_HasPermissionHierarchy ==
    userCall.op = "has_permission" =>
        /\ userEnt.role = "admin" => userCall.ret = TRUE
        /\ userEnt.role = "coordinator" => userCall.ret = (userCall.arg # "admin")
        /\ userEnt.role = "radiologist" => userCall.ret = (userCall.arg = "radiologist")

C19_Witness ==
    /\ userCall.op = "has_permission"
    /\ userEnt.role = "radiologist"
    /\ userCall.arg = "coordinator"
    /\ userCall.ret = FALSE

\* C20: constructing a User with an empty supabase_user_id raises ValueError
\* and no User object results.
C20_UserRequiresSupabaseId ==
    (userCall.op = "User" /\ userCall.arg = "") =>
        (userCall.raised = "ValueError" /\ userEnt = NoUser)

C20_Witness ==
    /\ userCall.op = "User"
    /\ userCall.arg = ""
    /\ userCall.raised = "ValueError"

\* C11: every creation of a follow-up, through CreateFollowUpService.execute
\* or through POST /followups, persists it with status pending together with
\* exactly one action record of type created (previous_status null,
\* new_status pending): once the creating request has ended, the first record
\* of every persisted recommendation's history is its only created action.
C11_CreatedActionFirst ==
    \A id \in DOMAIN followups :
        (\A w \in Workers : calls[w].followup_id # id) =>
            LET mine == SelectSeq(actions, LAMBDA a : a.recommendation_id = id)
            IN  /\ Len(mine) >= 1
                /\ mine[1] = [recommendation_id |-> id, action_type |-> "created",
                              previous_status |-> "none", new_status |-> "pending",
                              created_by |-> followups[id].created_by]
                /\ \A i \in 2..Len(mine) : mine[i].action_type # "created"

\* C14: the action history is append-only: after any create, status-update,
\* worklist or metrics operation every action record once written is still
\* present, in place, with all its fields unchanged.
C14_ActionsAppendOnly ==
    [][/\ Len(actions') >= Len(actions)
       /\ \A i \in 1..Len(actions) : actions'[i] = actions[i]
      ]_vars

C14_Witness ==
    /\ Len(actions) = 2
    /\ actions[1].action_type = "created"
    /\ actions[2].action_type = "status_changed"
    /\ lastDone.op \in {"worklist", "metrics"} /\ lastDone.result = "ok"

\* C15: a recommendation is never deleted and its identity never changes:
\* after any operation every persisted recommendation is still persisted
\* under the same id with the same report_id, patient_id, created_by and
\* created_at; saving an existing one adds no second record.
C15_NeverDeletedSameIdentity ==
    [][/\ \A id \in DOMAIN followups :
             /\ id \in DOMAIN followups'
             /\ followups'[id].id = id
             /\ followups'[id].report_id = followups[id].report_id
             /\ followups'[id].patient_id = followups[id].patient_id
             /\ followups'[id].created_by = followups[id].created_by
             /\ followups'[id].created_at = followups[id].created_at
       /\ (\E w \in Workers : calls[w].op = "update" /\ calls[w].pc = "save"
                              /\ calls'[w].pc = "add_action") =>
             DOMAIN followups' = DOMAIN followups
      ]_vars

C15_Witness ==
    /\ followups[1].status = "cancelled"
    /\ followups[1].report_id = 1
    /\ followups[1].created_at = 0
    /\ lastDone.op = "update" /\ lastDone.result = "ok"

\* C17: UpdateFollowUpStatusService.execute goes on only for a coordinator or
\* an admin, CreateFollowUpService.execute only for a radiologist or an admin;
\* for any other role the call raises PermissionError, records one audit
\* event with success False and touches nothing in the follow-up repository.
C17_RoleEnforcement ==
    [][/\ \A w \in Workers :
             /\ calls'[w].op = "update" =>
                   RoleOf[calls'[w].user] \in {"coordinator", "admin"}
             /\ calls'[w].op = "create" =>
                   RoleOf[calls'[w].user] \in {"radiologist", "admin"}
       /\ nCalls' # nCalls =>
             \A w \in Workers, u \in UserIds :
                LET Denied(op, id) ==
                       /\ lastDone' = [op |-> op, result |-> "PermissionError",
                                       nAudit |-> 1, nActions |-> 0, nSaves |-> 0]
                       /\ calls'[w] = IdleCall
                       /\ auditLog' = auditLog (+) SetToBag({
                              [action |-> op, entity_type |-> "FollowUpRecommendation",
                               entity_id |-> id, user_id |-> u, success |-> FALSE]})
                       /\ followups' = followups
                       /\ actions' = actions
                IN  /\ RoleOf[u] = "radiologist" =>
                          \A id \in 1..MaxRecs, t \in Statuses :
                              UpdateStart(w, u, id, t) => Denied("update", id)
                    /\ RoleOf[u] = "coordinator" =>
                          \A r \in ReportIdInputs, m \in IntervalInputs :
                              CreateStart(w, u, r, m) => Denied("create", NoId)
      ]_vars

C17_Witness ==
    /\ lastDone = [op |-> "create", result |-> "PermissionError",
                   nAudit |-> 1, nActions |-> 0, nSaves |-> 0]
    /\ BagIn([action |-> "create", entity_type |-> "FollowUpRecommendation",
              entity_id |-> NoId, user_id |-> 2, success |-> FALSE], auditLog)
    /\ BagIn([action |-> "update", entity_type |-> "FollowUpRecommendation",
              entity_id |-> 1, user_id |-> 1, success |-> FALSE], auditLog)

\* C18: CreateFollowUpService.execute persists a recommendation only when the
\* referenced report is found and finalized, with the due date computed from
\* the report's finalization date plus the interval; for an absent report it
\* raises ReportNotFoundError and persists nothing.
C18_OnlyForFinalizedReport ==
    [][\A w \in Workers :
          (calls[w].op = "create" /\ calls[w].pc = "save" /\ followups' # followups) =>
              LET f == calls[w].followup IN
              /\ f.report_id \in DOMAIN ReportTable
              /\ ReportTable[f.report_id].finalized_at # NoDate
              /\ followups'[f.id].due_date =
                    ReportTable[f.report_id].finalized_at
                        + 30 * f.interval_months * TicksPerDay
      ]_vars

\* C21: RecommendationInterval.to_days() returns value*1 for days, value*7
\* for weeks, value*30 for months and value*365 for years (3 months = 90,
\* 1 year = 365); an interval with value <= 0 cannot be constructed
\* (ValueError, 'must be positive'); so for an interval of m months to_days()
\* is the number of days calculate_due_date adds for interval_months = m.
C21_ToDaysMultipliers ==
    /\ interval # NoInterval => interval.value > 0
    /\ (intervalCall.op = "RecommendationInterval" /\ intervalCall.value <= 0) =>
          /\ intervalCall.raised = "ValueError"
          /\ intervalCall.message = "Interval value must be positive"
          /\ interval = NoInterval
    /\ intervalCall.op = "to_days" =>
          LET v == intervalCall.value
              u == intervalCall.unit
              days == intervalCall.ret
          IN  /\ u = "days" => days = v
              /\ u = "weeks" => days = v * 7
              /\ u = "months" => days = v * 30
              /\ u = "years" => days = v * 365
              /\ (u = "months" /\ v = 3) => days = 90
              /\ (u = "years" /\ v = 1) => days = 365
              /\ u = "months" =>
                    \A d \in ReferenceDateInputs \ {NoDate} :
                        calculate_due_date([NoEntity EXCEPT !.interval_months = v],
                                           d, now).due_date = d + days * TicksPerDay

C21_Witness ==
    /\ intervalCall.op = "to_days"
    /\ interval.unit = "months" /\ interval.value = 3
    /\ intervalCall.ret = 90

\* C22: worklist site restriction: for a non-admin user
\* ListWorklistService.execute ignores the caller-supplied site_id and returns
\* only follow-ups of the user's own site (the site of the user who created
\* the follow-up); only an admin sees the follow-ups of all sites.
C22_WorklistSiteRestriction ==
    \A w \in Workers :
        (calls[w].op = "worklist" /\ calls[w].pc = "audit"
            /\ RoleOf[calls[w].user] # "admin") =>
            /\ calls[w].filters.site_id = SiteOf[calls[w].user]
            /\ \A i \in 1..Len(calls[w].items) :
                  SiteOf[calls[w].items[i].followup.created_by] = SiteOf[calls[w].user]

\* C23: WorklistOutput.total_count is the number of follow-ups that match the
\* same criteria as the items (status, assignee, due-date bounds, modality),
\* so offset + len(items) <= total_count, and has_more is true exactly when
\* offset + len(items) < total_count.
C23_TotalCountMatchesItems ==
    \A w \in Workers :
        (calls[w].op = "worklist" /\ calls[w].pc = "audit") =>
            LET c == calls[w]
                f == c.filters
                matching == {i \in DOMAIN followups :
                                WorklistWhere(followups[i], f.status, f.assigned_to,
                                              f.due_before, f.due_after, f.modality)}
            IN  /\ c.total_count = Cardinality(matching)
                /\ f.offset + Len(c.items) <= c.total_count
                /\ c.has_more <=> (f.offset + Len(c.items) < c.total_count)

\* C24: worklist pagination: the page holds at most filters.limit items, the
\* matching follow-ups in ascending due-date order from position offset on;
\* has_more is true exactly when at least one more matching follow-up comes
\* after the page.
C24_Pagination ==
    \A w \in Workers :
        (calls[w].op = "worklist" /\ calls[w].pc = "audit") =>
            LET c == calls[w]
                f == c.filters
                n == Len(c.items)
                matching == {i \in DOMAIN followups :
                                WorklistWhere(followups[i], f.status, f.assigned_to,
                                              f.due_before, f.due_after, f.modality)}
                M == Cardinality(matching)
                Due(i) == c.items[i].followup.due_date
                Asc(a, b) == b = NoDate \/ (a # NoDate /\ a <= b)
                Before(d) == {j \in matching : ~ Asc(d, followups[j].due_date)}
                UpTo(d) == {j \in matching : Asc(followups[j].due_date, d)}
            IN  /\ n <= f.limit
                /\ n = IF M - f.offset >= f.limit THEN f.limit
                       ELSE IF M - f.offset >= 0 THEN M - f.offset ELSE 0
                /\ \A i \in 1..n :
                      /\ c.items[i].followup.id \in matching
                      /\ c.items[i].followup = followups[c.items[i].followup.id]
                      /\ Cardinality(Before(Due(i))) <= f.offset + i - 1
                      /\ Cardinality(UpTo(Due(i))) >= f.offset + i
                /\ \A i, j \in 1..n :
                      i < j => (/\ Asc(Due(i), Due(j))
                                /\ c.items[i].followup.id # c.items[j].followup.id)
                /\ c.has_more <=> (M > f.offset + n)

C24_Witness ==
    \E w \in Workers :
        /\ calls[w].op = "worklist" /\ calls[w].pc = "audit"
        /\ calls[w].filters.limit = 1 /\ calls[w].filters.offset = 0
        /\ calls[w].has_more
        /\ Len(calls[w].items) = 1
        /\ calls[w].items[1].followup.id = 2
        /\ followups[2].due_date = 0 /\ followups[1].due_date = 1

\* C25: only admins can assign roles: after any sequence of
\* LinkSupabaseUserService.execute calls made without an admin current_user,
\* every user created has role radiologist and no existing user's role has
\* changed; a self-registration that asks for another role creates a
\* radiologist, and a role change on an existing user raises PermissionError
\* and leaves the record as it was.
C25_OnlyAdminsAssignRoles ==
    [][(nCalls' # nCalls /\ linkCall'.op = "execute"
            /\ linkCall'.current_role # "admin") =>
          /\ \A sub \in DOMAIN users' \ DOMAIN users : users'[sub].role = "radiologist"
          /\ \A sub \in DOMAIN users : users'[sub].role = users[sub].role
          /\ (/\ linkCall'.supabase_user_id \in DOMAIN users
              /\ linkCall'.role # users[linkCall'.supabase_user_id].role) =>
                 (linkCall'.raised = "PermissionError" /\ users' = users)
      ]_vars

\* C26: a report is finalized only once: the first finalize() sets
\* is_finalized and finalized_at; every later finalize() raises ValueError and
\* leaves both as they were.
C26_FinalizedOnlyOnce ==
    [][/\ reportEnt.is_finalized => reportEnt' = reportEnt
       /\ reportCall' # reportCall =>
             LET b == reportCall'.before IN
             /\ reportCall'.op = "finalize" /\ b = reportEnt
             /\ IF b.is_finalized
                THEN reportCall'.raised = "ValueError" /\ reportEnt' = b
                ELSE /\ reportCall'.raised = "none"
                     /\ reportEnt'.is_finalized
                     /\ reportEnt'.finalized_at = now
                     /\ reportEnt'.id = b.id
      ]_vars

C26_Witness ==
    /\ reportCall.op = "finalize" /\ reportCall.raised = "ValueError"
    /\ reportCall.before.is_finalized
    /\ reportCall.before.finalized_at # NoDate
    /\ reportCall.at > reportCall.before.finalized_at
    /\ reportEnt = reportCall.before

\* C27: when the operations on a recommendation created through
\* CreateFollowUpService run one after another to completion, its action
\* history is a chain: the first action is 'created' with new_status pending,
\* each later status_changed action starts from the new_status of the action
\* before it and is a pair the transition table allows, and the new_status of
\* the last action is the persisted status.
C27_ActionHistoryIsChain ==
    Sequential =>
        \A id \in DOMAIN followups :
            LET h == get_actions(actions, id) IN
            /\ Len(h) >= 1
            /\ h[1].action_type = "created" /\ h[1].new_status = "pending"
            /\ \A i \in 2..Len(h) :
                  /\ h[i].action_type = "status_changed"
                  /\ h[i].previous_status = h[i - 1].new_status
                  /\ <<h[i].previous_status, h[i].new_status>> \in TransitionTable
            /\ h[Len(h)].new_status = followups[id].status

C27_Witness ==
    /\ Sequential
    /\ Len(get_actions(actions, 1)) = 3
    /\ get_actions(actions, 1)[3].previous_status = "scheduled"
    /\ followups[1].status = "completed"

\* C28: the status overdue is never stored by the lifecycle operations: a
\* recommendation created pending never has status overdue, in the table, in
\* a request's loaded copy or in an action record, after any sequence of
\* status updates, because no transition targets overdue.
C28_OverdueNeverStored ==
    /\ \A id \in DOMAIN followups : followups[id].status # "overdue"
    /\ \A w \in Workers : calls[w].followup.status # "overdue"
    /\ \A i \in 1..Len(actions) :
          actions[i].new_status # "overdue" /\ actions[i].previous_status # "overdue"
    /\ \A s \in Statuses : "overdue" \notin transitions_get(s)

C28_Witness ==
    /\ lastDone.op = "update" /\ lastDone.result = "ok"
    /\ Len(actions) = 3
    /\ followups[1].status = "cancelled"

\* C29: the is_overdue flag ListWorklistService computes for an item (due
\* date present, (due_date - now).days < 0, status neither completed nor
\* cancelled) equals FollowUpRecommendation.is_overdue() of the same
\* recommendation at the same instant, for every due date, instant and status.
C29_WorklistOverdueAgrees ==
    [][\A w \in Workers :
          (calls[w].op = "worklist" /\ calls[w].pc = "count"
              /\ calls'[w].pc = "audit") =>
              \A i \in 1..Len(calls'[w].items) :
                  LET item == calls'[w].items[i] IN
                  /\ item.is_overdue = is_overdue(item.followup, now)
                  /\ item.has_days = (item.followup.due_date # NoDate)
      ]_vars

C29_Witness ==
    \E w \in Workers :
        /\ calls[w].op = "worklist" /\ calls[w].pc = "audit"
        /\ Len(calls[w].items) >= 1
        /\ calls[w].items[1].is_overdue
        /\ calls[w].items[1].days_until_due = -1
        /\ calls[w].items[1].followup.due_date = now - 1

\* C30: the metrics counters are consistent: total_completed is the number of
\* completed follow-ups; total_overdue is the number for which is_overdue()
\* holds and counts no completed or cancelled one (total_overdue <= total -
\* completed - cancelled); pending + scheduled + completed + cancelled <=
\* total_followups; the counts of modality_breakdown sum to total_followups.
C30_MetricsCountersConsistent ==
    [][\A w \in Workers :
          (calls[w].pc = "idle" /\ calls'[w].op = "metrics") =>
              LET m == calls'[w].metrics
                  ids == DOMAIN followups
                  N(S) == Cardinality(S)
                  RECURSIVE Sum(_, _)
                  Sum(f, D) == IF D = {} THEN 0
                               ELSE LET x == CHOOSE y \in D : TRUE
                                    IN  f[x] + Sum(f, D \ {x})
              IN  /\ m.total_followups = N(ids)
                  /\ m.total_completed = N({i \in ids : followups[i].status = "completed"})
                  /\ m.total_overdue = N({i \in ids : is_overdue(followups[i], now)})
                  /\ m.total_overdue = N({i \in ids :
                        /\ is_overdue(followups[i], now)
                        /\ followups[i].status \notin {"completed", "cancelled"}})
                  /\ m.total_overdue <= m.total_followups - m.completed - m.cancelled
                  /\ m.pending + m.scheduled + m.completed + m.cancelled
                        <= m.total_followups
                  /\ Sum(m.modality_breakdown, DOMAIN m.modality_breakdown)
                        = m.total_followups
      ]_vars

C30_Witness ==
    \E w \in Workers :
        /\ calls[w].op = "metrics" /\ calls[w].pc = "audit"
        /\ calls[w].metrics.total_followups = 2
        /\ calls[w].metrics.total_overdue = 1
        /\ calls[w].metrics.total_completed = 1
        /\ calls[w].metrics.pending = 0
        /\ DOMAIN calls[w].metrics.modality_breakdown = {"CT", "Unknown"}

====
